---- MODULE Spec2Model ----
(***************************************************************************)
(* A model of bin/check_samplesheet.py (noveltree): the samplesheet        *)
(* validator.  A string is a sequence of one-character strings, a file is  *)
(* a sequence of lines (a line holds no line terminator).  The validator   *)
(* reads the header, then one line per loop iteration, then writes the     *)
(* output file; main() may then be started again on the file it wrote.     *)
(***************************************************************************)
EXTENDS Integers, Sequences, FiniteSets, TLC

VARIABLES
    run,                  \* 1: the validator on a samplesheet, 2: again on its own output
    pc,                   \* "header", "rows", "done" (returned), "exit" (sys.exit(1))
    input,                \* the lines of file_in read so far (run 2: the whole file)
    pos,                  \* how many lines of file_in have been consumed
    species_mapping_dict, \* species -> sequence of [file, tax1, tax2, mode, uniprot]
    fout_created,         \* whether file_out has been opened for writing
    fout,                 \* the lines written to file_out
    exit_code,            \* -1 while running, 0 after a normal return, 1 after sys.exit(1)
    err,                  \* which error was printed ("" for none)
    warnings,             \* the species values the WARNING lines name, in order
    out1                  \* the file written by run 1 (kept for run 2)

vars == <<run, pc, input, pos, species_mapping_dict, fout_created, fout,
          exit_code, err, warnings, out1>>

(***************************************************************************)
(* Bounds                                                                  *)
(***************************************************************************)
\* the largest number of lines after the header a samplesheet holds
MaxRows == 3

(***************************************************************************)
(* Characters and Python's str operations                                  *)
(***************************************************************************)
SP == " "
TAB == "\t"
DQ == "\""
COMMA == ","
US == "_"

\* the characters str.strip() with no argument removes (of those the model uses)
Whitespace == {SP, TAB}

Digits == <<"0", "1", "2", "3", "4", "5", "6", "7", "8", "9">>
Upper == <<"A", "B", "C", "D", "E", "F", "G", "H", "I", "J", "K", "L", "M",
           "N", "O", "P", "Q", "R", "S", "T", "U", "V", "W", "X", "Y", "Z">>
Lower == <<"a", "b", "c", "d", "e", "f", "g", "h", "i", "j", "k", "l", "m",
           "n", "o", "p", "q", "r", "s", "t", "u", "v", "w", "x", "y", "z">>

IndexOf(seq, c) == CHOOSE i \in 1..Len(seq) : seq[i] = c

\* the characters in use
Alphabet ==
    {TAB, SP, DQ, COMMA, ".", US}
        \cup {Digits[i] : i \in 1..Len(Digits)}
        \cup {Upper[i] : i \in 1..Len(Upper)}
        \cup {Lower[i] : i \in 1..Len(Lower)}

\* the code points of the characters in use
CodePoint ==
    [c \in Alphabet |->
        CASE c = TAB -> 9
          [] c = SP -> 32
          [] c = DQ -> 34
          [] c = COMMA -> 44
          [] c = "." -> 46
          [] c = US -> 95
          [] \E i \in 1..Len(Digits) : Digits[i] = c -> 47 + IndexOf(Digits, c)
          [] \E i \in 1..Len(Upper) : Upper[i] = c -> 64 + IndexOf(Upper, c)
          [] \E i \in 1..Len(Lower) : Lower[i] = c -> 96 + IndexOf(Lower, c)]

\* ord(c), which str comparison goes by
Ord(c) == CodePoint[c]

\* a < b for two str: at the first index where they differ, or a is a proper prefix
StrLess(a, b) ==
    \E i \in 1..(Len(b)) :
        /\ \A j \in 1..(i - 1) : j <= Len(a) /\ a[j] = b[j]
        /\ \/ i = Len(a) + 1
           \/ i <= Len(a) /\ Ord(a[i]) < Ord(b[i])

Drop(s, n) == SubSeq(s, n + 1, Len(s))
Take(s, n) == SubSeq(s, 1, n)

\* s.lstrip(chars) and s.rstrip(chars) for a set of characters
RECURSIVE LStrip(_, _)
LStrip(s, chars) ==
    IF s # <<>> /\ Head(s) \in chars THEN LStrip(Tail(s), chars) ELSE s

RECURSIVE RStrip(_, _)
RStrip(s, chars) ==
    IF s # <<>> /\ s[Len(s)] \in chars THEN RStrip(Take(s, Len(s) - 1), chars) ELSE s

\* s.strip(chars)
StripChars(s, chars) == RStrip(LStrip(s, chars), chars)

\* s.strip()
Strip(s) == StripChars(s, Whitespace)

\* s.strip('"')
StripQuotes(s) == StripChars(s, {DQ})

\* s.split(sep) for a one-character sep: never empty, "" gives [""]
RECURSIVE Split(_, _)
Split(s, sep) ==
    IF \E i \in 1..Len(s) : s[i] = sep
    THEN LET i == CHOOSE k \in 1..Len(s) : s[k] = sep /\ \A j \in 1..(k - 1) : s[j] # sep
         IN  <<Take(s, i - 1)>> \o Split(Drop(s, i), sep)
    ELSE <<s>>

\* sep.join(parts)
RECURSIVE Join(_, _)
Join(parts, sep) ==
    IF parts = <<>> THEN <<>>
    ELSE IF Len(parts) = 1 THEN parts[1]
    ELSE parts[1] \o <<sep>> \o Join(Tail(parts), sep)

\* s.find(c) != -1
Contains(s, c) == \E i \in 1..Len(s) : s[i] = c

\* s.replace(a, b) for one-character a and b
Replace(s, a, b) == [i \in 1..Len(s) |-> IF s[i] = a THEN b ELSE s[i]]

\* s.endswith(suffix)
EndsWith(s, suffix) ==
    Len(s) >= Len(suffix) /\ Drop(s, Len(s) - Len(suffix)) = suffix

\* str(n) of the f-string, n >= 0
RECURSIVE IntToStr(_)
IntToStr(n) ==
    IF n < 10 THEN <<Digits[n + 1]>>
    ELSE IntToStr(n \div 10) \o <<Digits[(n % 10) + 1]>>

\* mutant of Sorted: sorted(keys, reverse=True)
RECURSIVE SortedReverse(_)
SortedReverse(S) ==
    IF S = {} THEN <<>>
    ELSE LET m == CHOOSE x \in S : \A y \in S : x = y \/ StrLess(y, x)
         IN  <<m>> \o SortedReverse(S \ {m})

\* sorted(keys)
RECURSIVE Sorted(_)
Sorted(S) ==
    IF S = {} THEN <<>>
    ELSE LET m == CHOOSE x \in S : \A y \in S : x = y \/ StrLess(x, y)
         IN  <<m>> \o Sorted(S \ {m})

(***************************************************************************)
(* The validator's constants and the parts of its loop body                *)
(***************************************************************************)
W_species == <<"s", "p", "e", "c", "i", "e", "s">>
W_file == <<"f", "i", "l", "e">>
W_tax1 == <<"t", "a", "x", "1">>
W_tax2 == <<"t", "a", "x", "2">>
W_mode == <<"m", "o", "d", "e">>
W_uniprot == <<"u", "n", "i", "p", "r", "o", "t">>

HEADER == <<W_species, W_file, W_tax1, W_tax2, W_mode, W_uniprot>>
MIN_COLS == 6

DotFasta == <<".", "f", "a", "s", "t", "a">>
DotFa == <<".", "f", "a">>

\* header = [x.strip('"') for x in fin.readline().strip().split(",")]
HeaderTokens(line) ==
    LET parts == Split(Strip(line), COMMA)
    IN  [i \in 1..Len(parts) |-> StripQuotes(parts[i])]

\* header[: len(HEADER)] != HEADER
HeaderMismatch(line) ==
    LET header == HeaderTokens(line)
    IN  Take(header, IF Len(header) < Len(HEADER) THEN Len(header) ELSE Len(HEADER)) # HEADER

\* if line.strip(): a line that is not blank
NonBlank(line) == Strip(line) # <<>>

\* lspl = [x.strip().strip('"') for x in line.strip().split(",")]
Lspl(line) ==
    LET parts == Split(Strip(line), COMMA)
    IN  [i \in 1..Len(parts) |-> StripQuotes(Strip(parts[i]))]

\* mutant of NumCols: the filter  if x  left out
NumColsAll(lspl) == Len(lspl)

\* num_cols = len([x for x in lspl if x])
NumCols(lspl) == Cardinality({i \in 1..Len(lspl) : lspl[i] # <<>>})

\* species.find(" ") != -1: whether the WARNING is printed
SpeciesWarned(species) == Contains(species, SP)

\* mutant of SpeciesName: species.replace(" ", "_", 1)
SpeciesNameFirstOnly(species) ==
    IF SpeciesWarned(species)
    THEN LET first == CHOOSE i \in 1..Len(species) :
                          species[i] = SP /\ \A j \in 1..(i - 1) : species[j] # SP
         IN  [i \in 1..Len(species) |-> IF i = first THEN US ELSE species[i]]
    ELSE species

\* species after  if species.find(" ") != -1: species = species.replace(" ", "_")
SpeciesName(species) ==
    IF SpeciesWarned(species) THEN Replace(species, SP, US) ELSE species

\* mutant of FileError: the test of ".fa" left out
FileErrorFastaOnly(fasta) ==
    IF fasta = <<>> THEN ""
    ELSE IF Contains(fasta, SP) THEN "spaces"
    ELSE IF ~EndsWith(fasta, DotFasta) THEN "extension"
    ELSE ""

\* the check of the fasta file: the error it prints, "" when it passes
FileError(fasta) ==
    IF fasta = <<>> THEN ""
    ELSE IF Contains(fasta, SP) THEN "spaces"
    ELSE IF ~EndsWith(fasta, DotFasta) /\ ~EndsWith(fasta, DotFa) THEN "extension"
    ELSE ""

\* mutant of InList: species_info == species_mapping_dict[species][-1]
InListLast(species_info, list) == list # <<>> /\ list[Len(list)] = species_info

\* species_info in species_mapping_dict[species]
InList(species_info, list) == \E i \in 1..Len(list) : list[i] = species_info

\* the dictionary after a row with a new species or a new species_info
Populate(d, species, species_info) ==
    IF species \notin DOMAIN d
    THEN d @@ (species :> <<species_info>>)
    ELSE [d EXCEPT ![species] = Append(@, species_info)]

\* One iteration of  for line in fin  on a line that is not blank: the error
\* printed ("" for none), the warning printed (a sequence of at most one
\* species) and the dictionary afterwards.  print_error exits the process, so
\* the first error is the only one.
RowResult(line, d) ==
    LET lspl == Lspl(line)
        unchanged(e, w) == [err |-> e, warn |-> w, dict |-> d]
    IN  IF Len(lspl) < Len(HEADER) THEN unchanged("columns", <<>>)
        ELSE IF NumCols(lspl) < MIN_COLS THEN unchanged("populated", <<>>)
        ELSE
          LET species == SpeciesName(lspl[1])
              warn == IF SpeciesWarned(lspl[1]) THEN <<lspl[1]>> ELSE <<>>
              file == lspl[2]
              species_info == SubSeq(lspl, 2, Len(HEADER))
          IN  IF species = <<>> THEN unchanged("species", warn)
              ELSE IF FileError(file) # "" THEN unchanged(FileError(file), warn)
              ELSE IF species \in DOMAIN d /\ InList(species_info, d[species])
                   THEN unchanged("duplicate", warn)
              ELSE [err |-> "", warn |-> warn, dict |-> Populate(d, species, species_info)]

\* mutant of RunId: f"{species}_T{idx}"
RunIdZeroBased(species, idx) == species \o <<US, "T">> \o IntToStr(idx)

\* f"{species}_T{idx+1}" for the 0-based idx of enumerate
RunId(species, idx) == species \o <<US, "T">> \o IntToStr(idx + 1)

RECURSIVE Flatten(_)
Flatten(seqs) == IF seqs = <<>> THEN <<>> ELSE Head(seqs) \o Flatten(Tail(seqs))

\* the lines written for one species
SpeciesLines(d, species) ==
    [n \in 1..Len(d[species]) |-> Join(<<RunId(species, n - 1)>> \o d[species][n], COMMA)]

\* the lines written to file_out: the header, then the species in sorted order
OutputLines(d) ==
    LET keys == Sorted(DOMAIN d)
    IN  <<Join(HEADER, COMMA)>> \o Flatten([k \in 1..Len(keys) |-> SpeciesLines(d, keys[k])])

(***************************************************************************)
(* The samplesheets the validator is run on                                *)
(***************************************************************************)
V_a == <<"a">>
V_b == <<"b">>
V_a_sp_b == <<"a", SP, "b">>
V_a_2sp_b == <<"a", SP, SP, "b">>
V_a_tab_b == <<"a", TAB, "b">>
V_a_us_b == <<"a", US, "b">>
V_a_quoted == <<DQ, "a", DQ>>
F_x_fa == <<"x", ".", "f", "a">>
F_y_fasta == <<"y", ".", "f", "a", "s", "t", "a">>
F_x_txt == <<"x", ".", "t", "x", "t">>
F_x_FA == <<"x", ".", "F", "A">>
F_x_sp_y_fa == <<"x", SP, "y", ".", "f", "a">>
F_x_tab_y_fa == <<"x", TAB, "y", ".", "f", "a">>
Rest4 == <<<<"l">>, <<"m">>, <<"d">>, <<"t">>>>

\* a line  species,file,l,m,d,t
Row(species, file) == Join(<<species, file>> \o Rest4, COMMA)

AcceptableLines ==
    { Row(V_b, F_x_fa), Row(V_a, F_x_fa), Row(V_a, F_y_fasta),
      Row(V_a_sp_b, F_x_fa), Row(V_a_2sp_b, F_x_fa), Row(V_a_tab_b, F_x_fa),
      Row(V_a_us_b, F_x_fa),
      Row(V_a, F_x_tab_y_fa),
      Row(<<SP>> \o V_a_quoted \o <<TAB>>, <<SP>> \o F_x_fa \o <<SP>>) \o <<SP>>,
      Row(V_a, <<>>) \o <<COMMA, "z">> }

RejectedLines ==
    { Join(<<V_a, F_x_fa, <<"l">>, <<"m">>, <<"d">>>>, COMMA),
      Row(V_a, <<>>),
      Row(<<>>, F_x_fa) \o <<COMMA, "z">>,
      Row(V_a, F_x_sp_y_fa), Row(V_a, F_x_txt), Row(V_a, F_x_FA) }

BlankLines == { <<SP, TAB>> }

\* the lines a samplesheet may hold after its first
Lines == AcceptableLines \cup RejectedLines \cup BlankLines

H_ok == Join(HEADER, COMMA)
H_quoted == <<SP>> \o Join([i \in 1..Len(HEADER) |-> <<DQ>> \o HEADER[i] \o <<DQ>>], COMMA) \o <<TAB>>
H_extra == H_ok \o <<COMMA, "z">>
H_swapped == Join(<<W_species, W_file, W_tax2, W_tax1, W_mode, W_uniprot>>, COMMA)
H_short == Join(Take(HEADER, 5), COMMA)
H_spaced == Join(<<W_species, <<SP>> \o W_file, W_tax1, W_tax2, W_mode, W_uniprot>>, COMMA)
H_upper == Join(<<<<"S">> \o Tail(W_species), W_file, W_tax1, W_tax2, W_mode, W_uniprot>>, COMMA)

\* the first lines a samplesheet may have; <<>> is what readline() gives for
\* an empty file (and for a blank first line)
FirstLines ==
    { H_ok, H_quoted, H_extra, H_swapped, H_short, H_spaced, H_upper, <<>> }

(***************************************************************************)
(* The state machine                                                       *)
(***************************************************************************)
Init ==
    /\ run = 1
    /\ pc = "header"
    /\ input = <<>>
    /\ pos = 0
    /\ species_mapping_dict = <<>>
    /\ fout_created = FALSE
    /\ fout = <<>>
    /\ exit_code = -1
    /\ err = ""
    /\ warnings = <<>>
    /\ out1 = <<>>

\* the lines the next read of file_in may give: in run 1 the samplesheet is
\* any file of at most MaxRows lines after the first, in run 2 it is the file
\* run 1 wrote
NextLines(candidates) ==
    IF run = 1
    THEN IF pos <= MaxRows THEN candidates ELSE {}
    ELSE IF pos < Len(input) THEN {input[pos + 1]} ELSE {}

\* whether file_in ends at the read position
AtEOF == run = 1 \/ pos = Len(input)

Consume(line) ==
    /\ input' = IF run = 1 THEN Append(input, line) ELSE input
    /\ pos' = pos + 1

\* sys.exit(1) after the error message e
Exit(e) ==
    /\ pc' = "exit"
    /\ exit_code' = 1
    /\ err' = e

\* the header check
CheckHeader ==
    /\ pc = "header"
    /\ \E line \in NextLines(FirstLines) :
        /\ Consume(line)
        /\ IF HeaderMismatch(line)
           THEN Exit("header")
           ELSE /\ pc' = "rows"
                /\ UNCHANGED <<exit_code, err>>
    /\ UNCHANGED <<run, species_mapping_dict, fout_created, fout, warnings, out1>>

\* one iteration of  for line in fin
CheckRow ==
    /\ pc = "rows"
    /\ \E line \in NextLines(Lines) :
        /\ Consume(line)
        /\ IF ~NonBlank(line)
           THEN UNCHANGED <<pc, exit_code, err, species_mapping_dict, warnings>>
           ELSE LET r == RowResult(line, species_mapping_dict)
                IN  /\ warnings' = warnings \o r.warn
                    /\ species_mapping_dict' = r.dict
                    /\ IF r.err # ""
                       THEN Exit(r.err)
                       ELSE UNCHANGED <<pc, exit_code, err>>
    /\ UNCHANGED <<run, fout_created, fout, out1>>

\* mutant of WriteOutput: file_out opened before the test of the dictionary
WriteOutputEager ==
    /\ pc = "rows"
    /\ AtEOF
    /\ fout_created' = TRUE
    /\ IF DOMAIN species_mapping_dict # {}
       THEN /\ fout' = OutputLines(species_mapping_dict)
            /\ pc' = "done"
            /\ exit_code' = 0
            /\ err' = ""
       ELSE /\ Exit("noentries")
            /\ UNCHANGED fout
    /\ UNCHANGED <<run, input, pos, species_mapping_dict, warnings, out1>>

\* after the loop: write file_out, or fail when there is nothing to write
WriteOutput ==
    /\ pc = "rows"
    /\ AtEOF
    /\ IF DOMAIN species_mapping_dict # {}
       THEN /\ fout_created' = TRUE
            /\ fout' = OutputLines(species_mapping_dict)
            /\ pc' = "done"
            /\ exit_code' = 0
            /\ err' = ""
       ELSE /\ Exit("noentries")
            /\ UNCHANGED <<fout_created, fout>>
    /\ UNCHANGED <<run, input, pos, species_mapping_dict, warnings, out1>>

\* main() again, with the file just written as FILE_IN and a new FILE_OUT
Rerun ==
    /\ pc = "done"
    /\ run = 1
    /\ run' = 2
    /\ pc' = "header"
    /\ input' = fout
    /\ out1' = fout
    /\ pos' = 0
    /\ species_mapping_dict' = <<>>
    /\ fout_created' = FALSE
    /\ fout' = <<>>
    /\ exit_code' = -1
    /\ err' = ""
    /\ warnings' = <<>>

Next == CheckHeader \/ CheckRow \/ WriteOutput \/ Rerun

Spec == Init /\ [][Next]_vars

(***************************************************************************)
(* Vocabulary of the properties                                            *)
(***************************************************************************)
StructuralErrors == {"columns", "populated", "species", "spaces", "extension"}
RowErrors == StructuralErrors \cup {"duplicate"}
FatalErrors == RowErrors \cup {"header", "noentries"}

\* the last line read is a data row that went through the loop body
LastIsRow == pos >= 2 /\ NonBlank(input[pos])
LastLine == input[pos]

\* the positions of the data rows read and accepted so far
AcceptedAt == {i \in 2..pos : NonBlank(input[i]) /\ ~(i = pos /\ err \in RowErrors)}

\* the species a row is filed under and its remainder (rows of 6 fields or more)
KeyOf(line) == SpeciesName(Lspl(line)[1])
InfoOf(line) == SubSeq(Lspl(line), 2, 6)

\* the accepted rows, in input order
RECURSIVE AcceptedFrom(_)
AcceptedFrom(i) ==
    IF i > pos THEN <<>>
    ELSE (IF i \in AcceptedAt THEN <<input[i]>> ELSE <<>>) \o AcceptedFrom(i + 1)
AcceptedRows == AcceptedFrom(2)

\* the first field of an output line, and the species of its run identifier
\* (the identifier without its _T<n> ending)
OutId(line) == Split(line, COMMA)[1]
OutKey(line) ==
    LET stem == RStrip(OutId(line), {Digits[i] : i \in 1..Len(Digits)})
    IN  Take(stem, Len(stem) - 2)
OutN(line) ==
    LET id == OutId(line)
        stem == RStrip(id, {Digits[i] : i \in 1..Len(Digits)})
    IN  Drop(id, Len(stem))

HeaderText ==
    <<"s", "p", "e", "c", "i", "e", "s", ",", "f", "i", "l", "e", ",",
      "t", "a", "x", "1", ",", "t", "a", "x", "2", ",", "m", "o", "d", "e", ",",
      "u", "n", "i", "p", "r", "o", "t">>

(***************************************************************************)
(* C1                                                                      *)
(***************************************************************************)
\* C1: whenever the validator ends in a fatal condition the process has
\* exited with status 1 and file_out has been neither created nor written;
\* file_out is opened only once every line of file_in has been processed
\* without error.
C1_AllOrNothing ==
    /\ err # "" => err \in FatalErrors /\ pc = "exit"
    /\ pc = "exit" => exit_code = 1 /\ err \in FatalErrors /\ ~fout_created /\ fout = <<>>
    /\ fout_created => pc = "done" /\ exit_code = 0 /\ err = "" /\ pos = Len(input)
                       /\ AcceptedAt = {i \in 2..Len(input) : NonBlank(input[i])}

\* a run that accepted a row and then died on a later one
C1_Witness ==
    /\ pc = "exit" /\ err = "duplicate" /\ AcceptedAt # {}

(***************************************************************************)
(* C2                                                                      *)
(***************************************************************************)
\* C2: the output of a successful run starts with the line
\* species,file,tax1,tax2,mode,uniprot, and the species of its data rows never
\* decrease from one row to the next (so each species is one contiguous block
\* and the blocks are in strictly increasing order), the blocks being those of
\* the species of the accepted rows, whatever their order in the input.
C2_SortedBlocks ==
    pc = "done" =>
        /\ fout[1] = HeaderText
        /\ \A i \in 2..Len(fout) : \A j \in (i + 1)..Len(fout) :
              OutKey(fout[i]) = OutKey(fout[j]) \/ StrLess(OutKey(fout[i]), OutKey(fout[j]))
        /\ {OutKey(fout[i]) : i \in 2..Len(fout)} = {KeyOf(input[i]) : i \in AcceptedAt}

\* species b first appears before species a in the input, and a is written first
C2_Witness ==
    /\ pc = "done" /\ run = 1
    /\ \E i, j \in AcceptedAt : i < j /\ KeyOf(input[i]) = V_b /\ KeyOf(input[j]) = V_a
    /\ OutKey(fout[2]) = V_a

(***************************************************************************)
(* C3                                                                      *)
(***************************************************************************)
\* the remainders of the accepted rows of one species, in input order
RECURSIVE InfosOf(_, _)
InfosOf(rows, species) ==
    IF rows = <<>> THEN <<>>
    ELSE (IF KeyOf(Head(rows)) = species THEN <<InfoOf(Head(rows))>> ELSE <<>>)
         \o InfosOf(Tail(rows), species)

\* the data rows of the output that belong to one species, in output order
RECURSIVE OutRowsOf(_, _)
OutRowsOf(lines, species) ==
    IF lines = <<>> THEN <<>>
    ELSE (IF OutKey(Head(lines)) = species THEN <<Head(lines)>> ELSE <<>>)
         \o OutRowsOf(Tail(lines), species)

\* C3: for every species with k accepted rows the output holds exactly k rows
\* of that species, the n-th of them being species_Tn followed by the
\* remainder of the n-th accepted row of that species; the output holds one
\* data row per accepted row.
C3_RunIds ==
    pc = "done" =>
        /\ Len(fout) = 1 + Len(AcceptedRows)
        /\ \A species \in {KeyOf(input[i]) : i \in AcceptedAt} :
              LET infos == InfosOf(AcceptedRows, species)
                  rows == OutRowsOf(Tail(fout), species)
              IN  /\ Len(rows) = Len(infos)
                  /\ \A n \in 1..Len(infos) :
                        rows[n] = Join(<<species \o <<"_", "T">> \o IntToStr(n)>> \o infos[n], COMMA)

\* species a has two accepted rows with a row of another species between them
C3_Witness ==
    /\ pc = "done" /\ run = 1
    /\ Len(InfosOf(AcceptedRows, V_a)) >= 2
    /\ \E i, j, k \in AcceptedAt :
          /\ i < j /\ j < k
          /\ KeyOf(input[i]) = V_a /\ KeyOf(input[j]) # V_a /\ KeyOf(input[k]) = V_a

(***************************************************************************)
(* C4                                                                      *)
(***************************************************************************)
\* an earlier row of the input has the species and the remainder of the last
EarlierSame ==
    \E i \in 2..(pos - 1) :
        /\ NonBlank(input[i])
        /\ KeyOf(input[i]) = KeyOf(LastLine)
        /\ InfoOf(input[i]) = InfoOf(LastLine)

\* C4: a row that passes the structural checks is rejected as a duplicate
\* exactly when an earlier row has its species (after the replacement of
\* spaces) and its remainder; otherwise it is in its species' sequence; no
\* species' sequence ever holds a remainder twice.
C4_Duplicates ==
    /\ \A species \in DOMAIN species_mapping_dict :
          \A i, j \in 1..Len(species_mapping_dict[species]) :
              i # j => species_mapping_dict[species][i] # species_mapping_dict[species][j]
    /\ (LastIsRow /\ err \notin StructuralErrors) =>
          /\ err = "duplicate" <=> EarlierSame
          /\ err # "duplicate" =>
                /\ KeyOf(LastLine) \in DOMAIN species_mapping_dict
                /\ InList(InfoOf(LastLine), species_mapping_dict[KeyOf(LastLine)])

\* a duplicate of a row whose text is not the same: the species are equal
\* only after the replacement or the trimming
C4_Witness ==
    /\ LastIsRow /\ err = "duplicate"
    /\ \A i \in 2..(pos - 1) : input[i] # LastLine

(***************************************************************************)
(* C5                                                                      *)
(***************************************************************************)
\* C5: the validator run again on the file it wrote ends without a fatal
\* error, and what it then writes has as many data rows as the first output,
\* every one of them with a run identifier ending in _T1.
C5_Idempotent ==
    run = 2 =>
        /\ err = ""
        /\ pc = "done" =>
              /\ Len(fout) = Len(out1)
              /\ \A i \in 2..Len(fout) : OutN(fout[i]) = <<"1">>

(***************************************************************************)
(* C6                                                                      *)
(***************************************************************************)
\* the tokens of a first line, each without its surrounding double-quotes
\* and whitespace
TrimmedTokens(line) ==
    LET parts == Split(line, COMMA)
    IN  [i \in 1..Len(parts) |-> StripChars(parts[i], Whitespace \cup {DQ})]

\* C6: the header check accepts exactly when the first 6 tokens of the first
\* line, each trimmed of surrounding double-quotes and whitespace, are
\* species, file, tax1, tax2, mode, uniprot; anything else is the header error.
C6_HeaderCheck ==
    pos >= 1 =>
        LET tokens == TrimmedTokens(input[1])
        IN  err # "header" <=> (Len(tokens) >= 6 /\ Take(tokens, 6) = HEADER)

(***************************************************************************)
(* C7                                                                      *)
(***************************************************************************)
\* the last row got as far as the check of its file
ReachedFileCheck == LastIsRow /\ err \notin {"columns", "populated", "species"}
LastFile == Lspl(LastLine)[2]

HasSuffix(s, n, suffix) == Len(s) >= n /\ SubSeq(s, Len(s) - n + 1, Len(s)) = suffix
FastaName(s) ==
    \/ HasSuffix(s, 6, <<".", "f", "a", "s", "t", "a">>)
    \/ HasSuffix(s, 3, <<".", "f", "a">>)

\* C7 as stated: a row with a non-empty file is rejected if the file holds
\* any whitespace character, and unless it ends with .fasta or .fa.
C7_AnyWhitespace ==
    (ReachedFileCheck /\ LastFile # <<>>) =>
        /\ (\E i \in 1..Len(LastFile) : LastFile[i] \in Whitespace) => err \in {"spaces", "extension"}
        /\ ~FastaName(LastFile) => err \in {"spaces", "extension"}
        /\ ((\A i \in 1..Len(LastFile) : LastFile[i] \notin Whitespace) /\ FastaName(LastFile))
              => err \notin {"spaces", "extension"}

\* C7 (amended): a row with a non-empty file is rejected by the file check
\* exactly when the file holds a space character (the "contains spaces"
\* error) or, holding none, does not end with .fasta or .fa (the extension
\* error); other whitespace inside the file, a tab, is not rejected.
C7_FileCheck ==
    (ReachedFileCheck /\ LastFile # <<>>) =>
        /\ err = "spaces" <=> (\E i \in 1..Len(LastFile) : LastFile[i] = " ")
        /\ err = "extension" <=>
              ((\A i \in 1..Len(LastFile) : LastFile[i] # " ") /\ ~FastaName(LastFile))

\* a row whose file holds a tab and ends with .fa has been accepted
C7_Witness ==
    /\ ReachedFileCheck /\ err = ""
    /\ \E i \in 1..Len(LastFile) : LastFile[i] = TAB
    /\ FastaName(LastFile)

(***************************************************************************)
(* C8                                                                      *)
(***************************************************************************)
\* the last row got as far as the check of its species
ReachedSpecies == LastIsRow /\ err \notin {"columns", "populated"}
LastSpecies == Lspl(LastLine)[1]

\* every run of whitespace replaced by a single underscore
RECURSIVE CollapseRuns(_)
CollapseRuns(s) ==
    IF s = <<>> THEN <<>>
    ELSE IF Head(s) \in Whitespace
         THEN <<"_">> \o CollapseRuns(LStrip(s, Whitespace))
         ELSE <<Head(s)>> \o CollapseRuns(Tail(s))

\* every space character replaced by an underscore
RECURSIVE SpacesToUnderscores(_)
SpacesToUnderscores(s) ==
    IF s = <<>> THEN <<>>
    ELSE <<IF Head(s) = " " THEN "_" ELSE Head(s)>> \o SpacesToUnderscores(Tail(s))

\* the species values that had a space, over the rows that reached the check
RECURSIVE SpacedSpecies(_)
SpacedSpecies(i) ==
    IF i > pos THEN <<>>
    ELSE LET species == Lspl(input[i])[1]
         IN  (IF /\ NonBlank(input[i])
                 /\ (i < pos \/ err \notin {"columns", "populated"})
                 /\ \E k \in 1..Len(species) : species[k] = " "
              THEN <<species>> ELSE <<>>) \o SpacedSpecies(i + 1)

\* C8 as stated: a row whose species holds whitespace is accepted under the
\* species with every run of whitespace replaced by a single underscore.
C8_CollapsedRuns ==
    (ReachedSpecies /\ err = "" /\ \E i \in 1..Len(LastSpecies) : LastSpecies[i] \in Whitespace) =>
        /\ CollapseRuns(LastSpecies) \in DOMAIN species_mapping_dict
        /\ InList(InfoOf(LastLine), species_mapping_dict[CollapseRuns(LastSpecies)])

\* C8 (amended): a row whose species holds a space character has every space
\* character replaced by one underscore (a run of n spaces gives n
\* underscores, other whitespace such as a tab is kept), one warning naming
\* the original value is printed per such row, the row is never rejected for
\* its species, and it is grouped, deduplicated and written under the
\* replaced name; the process exits with status 1 exactly when an error was
\* printed, whatever the warnings.
C8_SpacesReplaced ==
    /\ warnings = SpacedSpecies(2)
    /\ (pc \in {"done", "exit"}) => (exit_code = 1 <=> err # "")
    /\ (ReachedSpecies /\ \E i \in 1..Len(LastSpecies) : LastSpecies[i] = " ") =>
          /\ err \in {"", "spaces", "extension", "duplicate"}
          /\ err = "duplicate" <=>
                \E i \in 2..(pos - 1) :
                    /\ NonBlank(input[i])
                    /\ SpacesToUnderscores(Lspl(input[i])[1]) = SpacesToUnderscores(LastSpecies)
                    /\ InfoOf(input[i]) = InfoOf(LastLine)
          /\ err = "" =>
                /\ SpacesToUnderscores(LastSpecies) \in DOMAIN species_mapping_dict
                /\ InList(InfoOf(LastLine), species_mapping_dict[SpacesToUnderscores(LastSpecies)])
    /\ pc = "done" =>
          {OutKey(fout[i]) : i \in 2..Len(fout)}
              = {SpacesToUnderscores(Lspl(input[i])[1]) : i \in AcceptedAt}

\* a species with a run of two spaces has been accepted and written
C8_Witness ==
    /\ pc = "done" /\ run = 1 /\ Len(warnings) >= 1
    /\ \E i \in AcceptedAt : Lspl(input[i])[1] = <<"a", " ", " ", "b">>
    /\ \E i \in 2..Len(fout) : OutKey(fout[i]) = <<"a", "_", "_", "b">>

(***************************************************************************)
(* C9                                                                      *)
(***************************************************************************)
\* C9: every accepted row has at least 6 fields and its first 6 fields are
\* all non-empty, and every data row of the output is six non-empty fields.
C9_SixNonEmpty ==
    /\ \A i \in AcceptedAt :
          /\ Len(Lspl(input[i])) >= 6
          /\ \A k \in 1..6 : Lspl(input[i])[k] # <<>>
    /\ pc = "done" =>
          \A i \in 2..Len(fout) :
              /\ Len(Split(fout[i], COMMA)) = 6
              /\ \A k \in 1..6 : Split(fout[i], COMMA)[k] # <<>>

(***************************************************************************)
(* C10                                                                     *)
(***************************************************************************)
NonEmptyCount(fields) == Cardinality({k \in 1..Len(fields) : Len(fields[k]) > 0})

\* C10 as stated: a row that passes the check of at least 6 fields passes the
\* check of at least 6 non-empty fields: the populated-columns error is
\* never printed.
C10_PopulatedDead ==
    (LastIsRow /\ Len(Lspl(LastLine)) >= 6) =>
        /\ NonEmptyCount(Lspl(LastLine)) >= 6
        /\ err # "populated"

\* C10 (amended): the populated-columns check is not subsumed: the error
\* "Invalid number of columns" is printed exactly for the rows of fewer than
\* 6 fields and "Invalid number of populated columns" exactly for the rows
\* of 6 fields or more of which fewer than 6 are non-empty.
C10_PopulatedLive ==
    LastIsRow =>
        /\ err = "columns" <=> Len(Lspl(LastLine)) < 6
        /\ err = "populated" <=>
              (Len(Lspl(LastLine)) >= 6 /\ NonEmptyCount(Lspl(LastLine)) < 6)

\* a row of 6 fields, one of them empty, has been rejected
C10_Witness ==
    /\ LastIsRow /\ err = "populated" /\ Len(Lspl(LastLine)) = 6

====
